---------------------------- MODULE Spec2Model ----------------------------
(***************************************************************************)
(* A model of the memcached GUI: the context list of MainWindow (its       *)
(* QListWidget items, the contexts.json file behind it) and the connection *)
(* session (MainWindow.is_connected, MemcachedClient.client).              *)
(*                                                                         *)
(* The repository holds two MainWindow classes: gui/src/ui/main_window.py  *)
(* (build "gui") and src/ui/main_window.py (build "src").  Both are        *)
(* modelled; the variable build says which one a behaviour runs.           *)
(*                                                                         *)
(* Strings that the code formats and parses again (the item texts) are     *)
(* sequences of one-character strings, so that split and rstrip are        *)
(* computed as Python computes them.                                       *)
(***************************************************************************)
EXTENDS Integers, Sequences, FiniteSets, TLC

(***************************************************************************)
(* Bounds of the model.                                                    *)
(***************************************************************************)
MaxContexts == 2      \* contexts the dialogs may bring the list to
NumColors == 2        \* colour pairs random.choice draws from (the code has 5)
MaxWriteFailures == 1 \* writes of contexts.json the disk may refuse in a behaviour

(***************************************************************************)
(* Python string operations on sequences of characters.                    *)
(***************************************************************************)
IsPrefixAt(s, sep, i) ==
    /\ i + Len(sep) - 1 <= Len(s)
    /\ \A k \in 1..Len(sep) : s[i + k - 1] = sep[k]

RECURSIVE Split(_, _)
\* str.split(sep), sep not empty: the pieces between the occurrences of sep,
\* found left to right
Split(s, sep) ==
    LET hits == {i \in 1..Len(s) : IsPrefixAt(s, sep, i)}
    IN  IF hits = {} THEN <<s>>
        ELSE LET i == CHOOSE j \in hits : \A k \in hits : j <= k
             IN  <<SubSeq(s, 1, i - 1)>>
                    \o Split(SubSeq(s, i + Len(sep), Len(s)), sep)

RECURSIVE RStrip(_, _)
\* str.rstrip(c) for a one-character c
RStrip(s, c) ==
    IF s # <<>> /\ s[Len(s)] = c THEN RStrip(SubSeq(s, 1, Len(s) - 1), c)
    ELSE s

RECURSIVE LStrip(_, _)
LStrip(s, c) ==
    IF s # <<>> /\ s[1] = c THEN LStrip(SubSeq(s, 2, Len(s)), c)
    ELSE s

\* str.strip() over the characters of the model: the blank is the only space
Strip(s) == LStrip(RStrip(s, " "), " ")

Digits == <<"0", "1", "2", "3", "4", "5", "6", "7", "8", "9">>

IsDigit(c) == \E d \in 1..10 : Digits[d] = c

DigitVal(c) == (CHOOSE d \in 1..10 : Digits[d] = c) - 1

RECURSIVE DigitsVal(_)
DigitsVal(s) ==
    IF s = <<>> THEN 0
    ELSE 10 * DigitsVal(SubSeq(s, 1, Len(s) - 1)) + DigitVal(s[Len(s)])

\* the body of a Python int literal once blanks and the sign are taken off
Unsigned(s) ==
    LET t == Strip(s)
    IN  IF t # <<>> /\ t[1] \in {"-", "+"} THEN SubSeq(t, 2, Len(t)) ELSE t

\* int(s) succeeds: blanks, an optional sign, then one or more digits
IntOk(s) ==
    LET u == Unsigned(s)
    IN  u # <<>> /\ \A k \in 1..Len(u) : IsDigit(u[k])

\* int(s), for IntOk(s)
IntVal(s) ==
    LET t == Strip(s)
    IN  IF t[1] = "-" THEN 0 - DigitsVal(Unsigned(s)) ELSE DigitsVal(Unsigned(s))

RECURSIVE NatToStr(_)
NatToStr(n) ==
    IF n < 10 THEN <<Digits[n + 1]>>
    ELSE NatToStr(n \div 10) \o <<Digits[(n % 10) + 1]>>

\* str(n) of a Python int
IntToStr(n) == IF n < 0 THEN <<"-">> \o NatToStr(0 - n) ELSE NatToStr(n)

(***************************************************************************)
(* JSON values of contexts.json: a string, an int, a colour pair, or a key *)
(* that the entry does not have (dict.get gives None).                     *)
(***************************************************************************)
JStr(s) == [t |-> "str", s |-> s, n |-> 0]
JInt(n) == [t |-> "int", s |-> <<>>, n |-> n]
JColors(k) == [t |-> "colors", s |-> <<>>, n |-> k]
JNone == [t |-> "none", s |-> <<>>, n |-> 0]

\* what an f-string makes of a JSON value
FStr(v) == IF v.t = "int" THEN IntToStr(v.n) ELSE v.s

PlusText == <<"+">>
PlusItem == [text |-> PlusText, colors |-> JNone]

\* f"{name} ({host}:{port})"
FormatItem(name, host, port) ==
    name \o <<" ", "(">> \o host \o <<":">> \o port \o <<")">>

\* name = text.split(" (")[0]; host_port = text.split(" (")[1].rstrip(")");
\* host, port = host_port.split(":")
\* exc names the exception the three lines end in, "" when they end normally
ParseItem(text) ==
    LET parts == Split(text, <<" ", "(">>)
        hp == IF Len(parts) >= 2 THEN Split(RStrip(parts[2], ")"), <<":">>)
              ELSE <<>>
    IN  IF Len(parts) < 2
        THEN [exc |-> "IndexError", name |-> parts[1], host |-> <<>>, port |-> <<>>]
        ELSE IF Len(hp) # 2
        THEN [exc |-> "ValueError", name |-> parts[1], host |-> <<>>, port |-> <<>>]
        ELSE [exc |-> "", name |-> parts[1], host |-> hp[1], port |-> hp[2]]

(***************************************************************************)
(* The state.                                                              *)
(***************************************************************************)
VARIABLES
    build,                \* "gui": gui/src/ui/main_window.py, "src": src/ui/main_window.py
    running,              \* FALSE once a handler has ended in an uncaught exception
    context_list,         \* the QListWidget: a sequence of [text, colors] items
    current,              \* row of context_list.currentItem(), 0 for None
    connect_btn_enabled,
    connect_btn_text,
    key_input_enabled,
    retrieve_btn_enabled, \* build "gui" only
    is_connected,
    client,               \* MemcachedClient.client
    config_file,          \* contexts.json
    status_bar,           \* the message the status bar shows
    value_text,           \* the text of the value pane
    ev,                   \* the handler that ran last, its inputs and what it reported
    write_failures        \* the writes of contexts.json that have failed so far

vars == <<build, running, context_list, current, connect_btn_enabled,
          connect_btn_text, key_input_enabled, retrieve_btn_enabled,
          is_connected, client, config_file, status_bar, value_text, ev,
          write_failures>>

\* the window as one value, so that a handler can call another
Window ==
    [build |-> build, running |-> running, context_list |-> context_list,
     current |-> current, connect_btn_enabled |-> connect_btn_enabled,
     connect_btn_text |-> connect_btn_text,
     key_input_enabled |-> key_input_enabled,
     retrieve_btn_enabled |-> retrieve_btn_enabled,
     is_connected |-> is_connected, client |-> client,
     config_file |-> config_file, status_bar |-> status_bar,
     value_text |-> value_text, ev |-> ev]

\* the step to the window w
Becomes(w) ==
    /\ build' = w.build
    /\ running' = w.running
    /\ context_list' = w.context_list
    /\ current' = w.current
    /\ connect_btn_enabled' = w.connect_btn_enabled
    /\ connect_btn_text' = w.connect_btn_text
    /\ key_input_enabled' = w.key_input_enabled
    /\ retrieve_btn_enabled' = w.retrieve_btn_enabled
    /\ is_connected' = w.is_connected
    /\ client' = w.client
    /\ config_file' = w.config_file
    /\ status_bar' = w.status_bar
    /\ value_text' = w.value_text
    /\ ev' = w.ev
    /\ write_failures' = write_failures + IF w.ev.save = "IOError" THEN 1 ELSE 0

\* the window w as the state
Is(w) ==
    /\ build = w.build
    /\ running = w.running
    /\ context_list = w.context_list
    /\ current = w.current
    /\ connect_btn_enabled = w.connect_btn_enabled
    /\ connect_btn_text = w.connect_btn_text
    /\ key_input_enabled = w.key_input_enabled
    /\ retrieve_btn_enabled = w.retrieve_btn_enabled
    /\ is_connected = w.is_connected
    /\ client = w.client
    /\ config_file = w.config_file
    /\ status_bar = w.status_bar
    /\ value_text = w.value_text
    /\ ev = w.ev
    /\ write_failures = 0

NoBox == [kind |-> "", text |-> ""]
NoArg == [name |-> <<>>, host |-> <<>>, port |-> <<>>]
NoStatus == [msg |-> "", arg |-> ""]

\* the record of a handler that has just been entered
Entered(op, row) ==
    [op |-> op, row |-> row, arg |-> NoArg, res |-> "", box |-> NoBox,
     exc |-> "", err |-> "", save |-> "", fwd |-> "", value |-> ""]

\* w after `raise exc` that nothing catches: PyQt6 ends the process
Uncaught(w, exc) ==
    [w EXCEPT !.running = FALSE, !.ev.exc = exc, !.ev.res = "uncaught"]

(***************************************************************************)
(* MemcachedClient.                                                        *)
(***************************************************************************)
NoClient == [obj |-> FALSE, host |-> <<>>, port |-> 0, open |-> FALSE]

\* self.client = Client((host, port)); self.client.stats()
\* The assignment comes before the probe: the object stays when the probe
\* raises.  reachable is whether stats() gets its answer.
client_connect(host, port, reachable) ==
    [obj |-> TRUE, host |-> host, port |-> port, open |-> reachable]

\* a disconnect that closes the client and keeps the object
client_disconnect_keeps(c) == c

\* if self.client: self.client.close(); self.client = None
client_disconnect(c) == IF c.obj THEN NoClient ELSE c

\* the calls of self.client.close() that disconnect() makes over c
client_closes(c) == IF c.obj THEN 1 ELSE 0

(***************************************************************************)
(* MainWindow: the session.                                                *)
(***************************************************************************)
ItemText(w, row) == w.context_list[row].text

\* the second definition of the gui class (lines 214-222) is the one in
\* force; the class of build "src" has no retrieve button
disconnect_memcached(w) ==
    [w EXCEPT !.client = client_disconnect(w.client),
              !.is_connected = FALSE,
              !.connect_btn_text = "Connect",
              !.key_input_enabled = FALSE,
              !.retrieve_btn_enabled = FALSE,
              !.status_bar = [msg |-> "disconnected", arg |-> ""]]

\* the slot of currentItemChanged; w.current is the new current row
gui_handle_context_changed(w) ==
    IF w.current = 0 \/ ItemText(w, w.current) = PlusText THEN w
    ELSE LET w1 == [w EXCEPT !.status_bar = [msg |-> "current", arg |-> ""],
                             !.connect_btn_enabled = TRUE]
         IN  IF w1.is_connected THEN disconnect_memcached(w1) ELSE w1

src_handle_context_changed(w) ==
    LET w1 == [w EXCEPT !.connect_btn_enabled = (w.current # 0)]
    IN  IF w1.is_connected THEN disconnect_memcached(w1) ELSE w1

handle_context_changed(w) ==
    IF w.build = "gui" THEN gui_handle_context_changed(w)
    ELSE src_handle_context_changed(w)

\* the connect that follows get_current_context in handle_connect, build
\* "gui": `if not result` is false of True and of the tuple (False, message).
\* The probe may succeed (reachable) only on a port a socket can connect to.
gui_try_connect(w, c, reachable, err) ==
    IF ~IntOk(c.port)
    THEN [w EXCEPT !.ev.res = "failed", !.ev.err = "ValueError",
                   !.ev.box = [kind |-> "critical", text |-> "ValueError"],
                   !.status_bar = [msg |-> "connect_failed", arg |-> "ValueError"]]
    ELSE LET ok == reachable /\ IntVal(c.port) \in 1..65535
         IN  [w EXCEPT !.client = client_connect(c.host, IntVal(c.port), ok),
                       !.ev.err = IF ok THEN "" ELSE err,
                       !.ev.res = "connected",
                       !.is_connected = TRUE,
                       !.connect_btn_text = "Disconnect",
                       !.key_input_enabled = TRUE,
                       !.retrieve_btn_enabled = TRUE,
                       !.status_bar = [msg |-> "connected", arg |-> ""]]

\* build "src": a tuple result with success false raises Exception(error)
src_try_connect(w, c, reachable, err) ==
    IF ~IntOk(c.port)
    THEN [w EXCEPT !.ev.res = "failed", !.ev.err = "ValueError",
                   !.ev.box = [kind |-> "critical", text |-> "ValueError"],
                   !.status_bar = [msg |-> "connect_failed", arg |-> "ValueError"]]
    ELSE LET ok == reachable /\ IntVal(c.port) \in 1..65535
             w1 == [w EXCEPT !.client = client_connect(c.host, IntVal(c.port), ok),
                             !.ev.err = IF ok THEN "" ELSE err]
         IN  IF ok
             THEN [w1 EXCEPT !.ev.res = "connected",
                             !.is_connected = TRUE,
                             !.connect_btn_text = "Disconnect",
                             !.key_input_enabled = TRUE,
                             !.status_bar = [msg |-> "connected", arg |-> ""]]
             ELSE [w1 EXCEPT !.ev.res = "failed",
                             !.ev.box = [kind |-> "critical", text |-> err],
                             !.status_bar = [msg |-> "connect_failed", arg |-> err]]

\* handle_connect without its first three lines: a click while connected
\* connects again
handle_connect_body_reconnects(w, reachable, err) ==
    IF w.current = 0
    THEN [w EXCEPT !.ev.res = "nocontext",
                   !.ev.box = [kind |-> "warning", text |-> "select a context"]]
    ELSE LET c == ParseItem(ItemText(w, w.current))
         IN  IF c.exc # "" THEN Uncaught(w, c.exc)
             ELSE IF w.build = "gui" THEN gui_try_connect(w, c, reachable, err)
             ELSE src_try_connect(w, c, reachable, err)

\* handle_connect, with get_current_context in it
handle_connect_body(w, reachable, err) ==
    IF w.is_connected
    THEN [disconnect_memcached(w) EXCEPT !.ev.res = "disconnected"]
    ELSE IF w.current = 0
    THEN [w EXCEPT !.ev.res = "nocontext",
                   !.ev.box = [kind |-> "warning", text |-> "select a context"]]
    ELSE LET c == ParseItem(ItemText(w, w.current))
         IN  IF c.exc # "" THEN Uncaught(w, c.exc)
             ELSE IF w.build = "gui" THEN gui_try_connect(w, c, reachable, err)
             ELSE src_try_connect(w, c, reachable, err)

(***************************************************************************)
(* MemcachedClient.get is called by handle_retrieve and is not in the      *)
(* client under src/: it is modelled from the capability the specification *)
(* describes, get(key) -> found(bytes) | absent, NotConnected without a    *)
(* connection.  answer is what the server holds for the key: "None" for an *)
(* absent key, "empty" for the value b'', "v" for a value with bytes.      *)
(***************************************************************************)
client_get(c, answer) ==
    IF ~c.obj THEN [raised |-> "NotConnected", value |-> ""]
    ELSE IF ~c.open THEN [raised |-> "ConnectionError", value |-> ""]
    ELSE [raised |-> "", value |-> answer]

\* `not value` of Python: None and b'' are false
Falsy(value) == value \in {"None", "empty"}

\* handle_retrieve (build "gui")
handle_retrieve_body(w, key, answer) ==
    IF Strip(key) = <<>>
    THEN [w EXCEPT !.ev.res = "nokey",
                   !.ev.box = [kind |-> "warning", text |-> "enter a key"]]
    ELSE LET g == client_get(w.client, answer)
             fwd == IF ~w.client.obj THEN "rejected"
                    ELSE IF w.client.open THEN "open" ELSE "not_open"
         IN  IF g.raised # ""
             THEN [w EXCEPT !.ev.fwd = fwd, !.ev.err = g.raised,
                            !.ev.res = "failed",
                            !.status_bar = [msg |-> "retrieve_failed", arg |-> g.raised]]
             ELSE IF Falsy(g.value)
             THEN [w EXCEPT !.ev.fwd = fwd, !.ev.value = g.value,
                            !.ev.res = "failed",
                            !.value_text = "key does not exist",
                            !.status_bar = [msg |-> "retrieve_failed",
                                            arg |-> "key does not exist"]]
             ELSE [w EXCEPT !.ev.fwd = fwd, !.ev.value = g.value,
                            !.ev.res = "found",
                            !.value_text = g.value,
                            !.status_bar = [msg |-> "retrieved", arg |-> ""]]

(***************************************************************************)
(* MainWindow: the list of contexts and contexts.json.                     *)
(***************************************************************************)
NoFile == [exists |-> FALSE, wellformed |-> FALSE, contexts |-> <<>>]

IsContext(item) == item.text # PlusText

\* the items of the list that are not "+", in the order of the list
ContextItems(list) == SelectSeq(list, IsContext)

RemoveAt(list, row) == SubSeq(list, 1, row - 1) \o SubSeq(list, row + 1, Len(list))

\* QListWidget.takeItem(row), rows counted from 1; row 0 is no row.
\* Removing the current item moves the current item to the item below it,
\* to the item above it when none is below, to None when the list empties,
\* and currentItemChanged calls handle_context_changed.
takeItem(w, row) ==
    LET n == Len(w.context_list)
        rest == RemoveAt(w.context_list, row)
    IN  IF row < 1 \/ row > n THEN w
        ELSE IF w.current = row
        THEN handle_context_changed(
                 [w EXCEPT !.context_list = rest,
                           !.current = IF row < n THEN row
                                       ELSE IF row > 1 THEN row - 1 ELSE 0])
        ELSE [w EXCEPT !.context_list = rest,
                       !.current = IF w.current > row THEN w.current - 1
                                   ELSE w.current]

\* the dict save_contexts builds of one item; build "src" adds
\* random.choice(colors), drawn here as colour number k
SavedContext(w, item, k) ==
    LET c == ParseItem(item.text)
    IN  [name |-> JStr(c.name), host |-> JStr(c.host), port |-> JStr(c.port),
         colors |-> IF w.build = "gui" THEN JNone ELSE JColors(k)]

\* save_contexts: the parse of an item text may raise, outside any try;
\* written is whether open(...,'w') and json.dump succeed; pick[i] is the
\* colour drawn for the i-th context
save_contexts(w, written, pick) ==
    LET items == ContextItems(w.context_list)
        bad == {i \in 1..Len(items) : ParseItem(items[i].text).exc # ""}
        first == CHOOSE i \in bad : \A j \in bad : i <= j
        contexts == [i \in 1..Len(items) |-> SavedContext(w, items[i], pick[i])]
    IN  IF bad # {} THEN Uncaught(w, ParseItem(items[first].text).exc)
        ELSE IF written
        THEN [w EXCEPT !.ev.save = "written",
                       !.config_file = [exists |-> TRUE, wellformed |-> TRUE,
                                        contexts |-> contexts]]
        ELSE [w EXCEPT !.ev.save = "IOError",
                       !.status_bar = [msg |-> "save_failed", arg |-> "IOError"]]

\* an entry of the file that context['name'], ['host'], ['port'] can read
HasKeys(e) == e.name.t # "none" /\ e.host.t # "none" /\ e.port.t # "none"

LoadedItem(e) ==
    [text |-> FormatItem(FStr(e.name), FStr(e.host), FStr(e.port)),
     colors |-> e.colors]

\* load_contexts: the items are added one by one inside the try, so the
\* entries before the first unreadable one stay in the list
load_contexts(w) ==
    LET f == w.config_file
        bad == {i \in 1..Len(f.contexts) : ~HasKeys(f.contexts[i])}
        stop == IF bad = {} THEN Len(f.contexts) + 1
                ELSE CHOOSE i \in bad : \A j \in bad : i <= j
        loaded == [i \in 1..(stop - 1) |-> LoadedItem(f.contexts[i])]
    IN  IF ~f.exists THEN [w EXCEPT !.context_list = <<PlusItem>>]
        ELSE IF ~f.wellformed
        THEN [w EXCEPT !.context_list = <<PlusItem>>,
                       !.ev.err = "JSONDecodeError",
                       !.status_bar = [msg |-> "load_failed", arg |-> "JSONDecodeError"]]
        ELSE IF bad # {}
        THEN [w EXCEPT !.context_list = loaded \o <<PlusItem>>,
                       !.ev.err = "KeyError",
                       !.status_bar = [msg |-> "load_failed", arg |-> "KeyError"]]
        ELSE [w EXCEPT !.context_list = loaded \o <<PlusItem>>]

\* MainWindow.__init__ of build b over the file f
Constructed(b, f, op) ==
    load_contexts(
        [build |-> b, running |-> TRUE, context_list |-> <<>>, current |-> 0,
         connect_btn_enabled |-> FALSE, connect_btn_text |-> "Connect",
         key_input_enabled |-> TRUE, retrieve_btn_enabled |-> FALSE,
         is_connected |-> FALSE, client |-> NoClient, config_file |-> f,
         status_bar |-> NoStatus, value_text |-> "",
         ev |-> Entered(op, 0)])

\* what get_context_data returns once the dialog is accepted
Rejected(w) ==
    [w EXCEPT !.ev.res = "rejected",
              !.ev.box = [kind |-> "warning", text |-> "name and host must not be empty"]]

AddedItem(d) == [text |-> FormatItem(d.name, d.host, d.port), colors |-> JNone]

\* an add that appends without taking "+" off the end first
gui_append_keeps_plus(w, d) ==
    [w EXCEPT !.context_list = w.context_list \o <<AddedItem(d), PlusItem>>]

\* the list after the add of build "gui": "+" is taken off the end, the new
\* item and a new "+" are appended
gui_append(w, d) ==
    LET w1 == takeItem(w, Len(w.context_list))
    IN  [w1 EXCEPT !.context_list = w1.context_list \o <<AddedItem(d), PlusItem>>]

\* build "src" appends after whatever the list ends in
src_append(w, d) ==
    [w EXCEPT !.context_list = w.context_list \o <<AddedItem(d)>>]

Saved(w, written, pick, msg) ==
    LET w1 == save_contexts(w, written, pick)
    IN  IF ~w1.running THEN w1
        ELSE [w1 EXCEPT !.ev.res = "done",
                        !.status_bar = [msg |-> msg, arg |-> ""]]

\* handle_add_context; accepted is the result of dialog.exec(), d the data
handle_add_context_body(w, accepted, d, written, pick) ==
    IF ~accepted THEN [w EXCEPT !.ev.res = "cancelled"]
    ELSE IF d.name = <<>> \/ d.host = <<>> THEN Rejected(w)
    ELSE Saved(IF w.build = "gui" THEN gui_append([w EXCEPT !.ev.arg = d], d)
               ELSE src_append([w EXCEPT !.ev.arg = d], d),
               written, pick, "added")

\* handle_edit_context (build "gui"): item.setText keeps the item's colours
handle_edit_context_body(w, row, accepted, d, written, pick) ==
    IF ItemText(w, row) = PlusText THEN [w EXCEPT !.ev.res = "plus"]
    ELSE IF ParseItem(ItemText(w, row)).exc # ""
    THEN Uncaught(w, ParseItem(ItemText(w, row)).exc)
    ELSE IF ~accepted THEN [w EXCEPT !.ev.res = "cancelled"]
    ELSE IF d.name = <<>> \/ d.host = <<>> THEN Rejected(w)
    ELSE Saved([w EXCEPT !.context_list[row].text = AddedItem(d).text,
                         !.ev.arg = d],
               written, pick, "edited")

\* handle_delete_context; yes is the answer to the question box
handle_delete_context_body(w, row, yes, written, pick) ==
    IF ItemText(w, row) = PlusText THEN [w EXCEPT !.ev.res = "plus"]
    ELSE IF ~yes THEN [w EXCEPT !.ev.res = "cancelled"]
    ELSE Saved(takeItem(w, row), written, pick, "deleted")

(***************************************************************************)
(* What the user and the environment may supply.  Spec runs every handler  *)
(* over the plain inputs; SpecRegistry runs the handlers of the list over  *)
(* the wider inputs, names and hosts with the separators of the item text  *)
(* in them and every kind of port, with no connection made and a disk that *)
(* takes every write.                                                      *)
(***************************************************************************)
Names == {<<>>, <<"a">>}
Hosts == {<<>>, <<"h">>}
Ports == {<<"1">>, <<"a", "b", "c">>}
WideNames == Names \cup {<<"a", " ", "(", "b", ":", "c">>}
WideHosts == Hosts \cup {<<":", ":", "1">>}
WidePorts == Ports \cup {<<"0">>, <<"6", "5", "5", "3", "6">>, <<"-", "1">>}
Keys == {<<>>, <<" ">>, <<"k">>}
Answers == {"None", "empty", "v"}
Errors == {"refused", "timed out"}

Entry(name, host, port, colors) ==
    [name |-> name, host |-> host, port |-> port, colors |-> colors]

\* the contexts.json the program may be started over
InitFiles ==
    { NoFile,
      [exists |-> TRUE, wellformed |-> FALSE, contexts |-> <<>>],
      [exists |-> TRUE, wellformed |-> TRUE, contexts |->
          <<Entry(JStr(<<"a">>), JStr(<<"h">>), JStr(<<"1">>), JNone)>>],
      [exists |-> TRUE, wellformed |-> TRUE, contexts |->
          <<Entry(JStr(<<"a">>), JStr(<<"h">>), JInt(1), JColors(1))>>],
      [exists |-> TRUE, wellformed |-> TRUE, contexts |->
          <<Entry(JStr(<<"a">>), JStr(<<"h">>), JStr(<<"1">>), JNone),
            Entry(JStr(<<"a">>), JNone, JStr(<<"1">>), JNone)>>] }

Data(name, host, port) == [name |-> name, host |-> host, port |-> port]

\* a dialog as it ends: cancelled, or accepted with the three fields
Dialogs(names, hosts, ports) ==
    {[accepted |-> FALSE, data |-> NoArg]}
      \cup {[accepted |-> TRUE, data |-> Data(name, host, port)] :
                name \in names, host \in hosts, port \in ports}

Inputs == Dialogs(Names, Hosts, Ports)
WideInputs == Dialogs(WideNames, WideHosts, WidePorts)

(***************************************************************************)
(* The actions: one per handler.  The delegate's editorEvent calls a       *)
(* handler for the item under a mouse release, which the press before it   *)
(* has made the current item.                                              *)
(***************************************************************************)
Init ==
    \E b \in {"gui", "src"}, f \in InitFiles : 
        Is(Constructed(b, f, "init"))

\* the user moves the current item to another row (mouse press, keyboard)
select_item ==
    /\ running
    /\ \E row \in 1..Len(context_list) :
        /\ row # current
        /\ Becomes(handle_context_changed(
              [Window EXCEPT !.current = row, !.ev = Entered("select", 0)]))

handle_connect ==
    /\ running
    /\ connect_btn_enabled
    /\ \E reachable \in BOOLEAN, err \in Errors :
        Becomes(handle_connect_body(
            [Window EXCEPT !.ev = Entered("connect", 0)], reachable, err))

handle_retrieve ==
    /\ running
    /\ build = "gui"
    /\ retrieve_btn_enabled
    /\ \E key \in Keys, answer \in Answers :
        Becomes(handle_retrieve_body(
            [Window EXCEPT !.ev = Entered("retrieve", 0)], key, answer))

\* a dialog that ends in a save: accepted with a name and a host
Passes(d) == d.accepted /\ d.data.name # <<>> /\ d.data.host # <<>>

\* the outcomes of the write and of the colour draws, where a save is reached
SaveOutcomes(reached, writes, n) ==
    IF ~reached THEN {[written |-> TRUE, pick |-> [i \in 1..n |-> 1]]}
    ELSE IF build = "gui"
    THEN {[written |-> x, pick |-> [i \in 1..n |-> 1]] : x \in writes}
    ELSE {[written |-> x, pick |-> f] : x \in writes, f \in [1..n -> 1..NumColors]}

\* a release over "+"
AddOver(dialogs, writes) ==
    /\ running
    /\ current # 0
    /\ context_list[current].text = PlusText
    /\ Len(ContextItems(context_list)) < MaxContexts
    /\ \E d \in dialogs :
        \E o \in SaveOutcomes(Passes(d), writes, Len(ContextItems(context_list)) + 1) :
            Becomes(handle_add_context_body(
                [Window EXCEPT !.ev = Entered("add", current)],
                d.accepted, d.data, o.written, o.pick))

\* a release over the edit icon of a context (build "gui")
EditOver(dialogs, writes) ==
    /\ running
    /\ build = "gui"
    /\ current # 0
    /\ context_list[current].text # PlusText
    /\ \E d \in dialogs :
        \E o \in SaveOutcomes(Passes(d), writes, Len(ContextItems(context_list))) :
            Becomes(handle_edit_context_body(
                [Window EXCEPT !.ev = Entered("edit", current)],
                current, d.accepted, d.data, o.written, o.pick))

\* a release over the edit icon of a context (build "src"): MainWindow gives
\* the delegate no handle_edit_context, and calling None raises
edit_without_handler ==
    /\ running
    /\ build = "src"
    /\ current # 0
    /\ context_list[current].text # PlusText
    /\ Becomes(Uncaught([Window EXCEPT !.ev = Entered("edit", current)], "TypeError"))

\* a release over the delete icon of a context
DeleteOver(writes) ==
    /\ running
    /\ current # 0
    /\ context_list[current].text # PlusText
    /\ \E yes \in BOOLEAN :
        \E o \in SaveOutcomes(yes, writes, Len(ContextItems(context_list)) - 1) :
            Becomes(handle_delete_context_body(
                [Window EXCEPT !.ev = Entered("delete", current)],
                current, yes, o.written, o.pick))

\* whether open(..., 'w') and json.dump may succeed, may fail
Writes == IF write_failures < MaxWriteFailures THEN BOOLEAN ELSE {TRUE}

handle_add_context == AddOver(Inputs, Writes)

handle_edit_context == EditOver(Inputs, Writes)

handle_delete_context == DeleteOver(Writes)

\* the program is started again over the contexts.json it left
restart ==
    \E f \in {config_file} :
        Becomes(Constructed(build, f, "restart"))

Next ==
    \/ select_item
    \/ handle_connect
    \/ handle_retrieve
    \/ handle_add_context
    \/ handle_edit_context
    \/ edit_without_handler
    \/ handle_delete_context
    \/ restart

Spec == Init /\ [][Next]_vars

registry_add == AddOver(WideInputs, {TRUE})

registry_edit == EditOver(WideInputs, {TRUE})

registry_delete == DeleteOver({TRUE})

NextRegistry ==
    \/ select_item
    \/ registry_add
    \/ registry_edit
    \/ edit_without_handler
    \/ registry_delete
    \/ restart

SpecRegistry == Init /\ [][NextRegistry]_vars

(***************************************************************************)
(* The claims.                                                             *)
(***************************************************************************)

\* C1: when the stats() probe of MemcachedClient.connect fails, handle_connect
\* of build "gui" leaves is_connected False, the Retrieve button disabled and
\* the button label "Connect", and shows the error message of the probe.
C1_FailedConnectStaysDisconnected ==
    (build = "gui" /\ ev.op = "connect" /\ ev.err \in Errors)
        => /\ ~is_connected
           /\ ~retrieve_btn_enabled
           /\ connect_btn_text = "Connect"
           /\ ev.box = [kind |-> "critical", text |-> ev.err]

\* C2: a get is handed to the client only over an open connection; any other
\* get is rejected as NotConnected.
C2_GetOnlyWhenOpen ==
    (ev.op = "retrieve" /\ ev.res # "nokey")
        => \/ ev.fwd = "open"
           \/ ev.fwd = "rejected" /\ ev.err = "NotConnected"

\* C3: a step that changes the selected item while the session is connected
\* over an open connection (a selection, the "+" item included, or the
\* deletion of the selected context) ends disconnected, with no client object.
C3_SelectionChangeDisconnects ==
    [][(/\ is_connected
        /\ client.open
        /\ \/ ev'.op = "select"
           \/ ev'.op = "delete" /\ Len(context_list') < Len(context_list))
          => ~is_connected' /\ ~client'.obj]_vars

\* C4: is_connected is True exactly when MemcachedClient.client holds a
\* client object.
C4_ConnectedIffClient == is_connected <=> client.obj

C6_AbsentIsNotAFailure ==
    (ev.op = "retrieve" /\ ev.fwd = "open" /\ ev.err = "")
        => /\ ev.value = "None" => status_bar.msg # "retrieve_failed"
           /\ ev.value # "None" => (ev.res = "found" /\ value_text = ev.value)

ValidPort(port) == IntOk(port) /\ IntVal(port) \in 1..65535

ValidRecord(d) == d.name # <<>> /\ d.host # <<>> /\ ValidPort(d.port)

ValidItem(item) ==
    /\ ParseItem(item.text).exc = ""
    /\ ValidRecord(ParseItem(item.text))

ValidEntry(e) ==
    /\ HasKeys(e)
    /\ ValidRecord(Data(FStr(e.name), FStr(e.host), FStr(e.port)))

\* C7: every context of the list, and every record a save writes, has a name,
\* a host and a port that is an integer in 1..65535.
C7_RecordsAreValid ==
    /\ \A i \in 1..Len(context_list) :
          IsContext(context_list[i]) => ValidItem(context_list[i])
    /\ ev.save = "written"
          => \A i \in 1..Len(config_file.contexts) : ValidEntry(config_file.contexts[i])

\* C8: an add with an invalid port fails with InvalidPort and leaves the
\* number of contexts of the list and of the file as it was.
C8_InvalidPortRejected ==
    [][(ev'.op = "add" /\ ev'.arg # NoArg /\ ~ValidPort(ev'.arg.port))
          => /\ ev'.box.text = "InvalidPort"
             /\ Len(ContextItems(context_list')) = Len(ContextItems(context_list))
             /\ config_file' = config_file]_vars

\* C9: an add of a name, a host and a port in 1..65535 succeeds: the contexts
\* before it keep their order and the new record is the last one, in the list
\* and in the sequence save_contexts writes.
C9_AddAppendsLast ==
    [][(ev'.op = "add" /\ ev'.arg # NoArg /\ ValidRecord(ev'.arg))
          => /\ ev'.res = "done"
             /\ ContextItems(context_list')
                   = ContextItems(context_list) \o <<AddedItem(ev'.arg)>>
             /\ ev'.save = "written"
                   => /\ Len(config_file'.contexts) = Len(ContextItems(context_list'))
                      /\ LET e == config_file'.contexts[Len(config_file'.contexts)]
                         IN  Data(FStr(e.name), FStr(e.host), FStr(e.port)) = ev'.arg]_vars

\* C10: a list of valid contexts that save_contexts has written is the list
\* load_contexts makes of the file: the same texts in the same order, each
\* with the colours it had.
C10_SaveLoadRoundTrip ==
    [][(/\ ev'.op = "restart"
        /\ running
        /\ ev.save = "written"
        /\ \A i \in 1..Len(context_list) :
              IsContext(context_list[i]) => ValidItem(context_list[i]))
          => LET old == ContextItems(context_list)
                 new == ContextItems(context_list')
             IN  /\ Len(new) = Len(old)
                 /\ \A i \in 1..Len(old) :
                       /\ new[i].text = old[i].text
                       /\ old[i].colors # JNone => new[i].colors = old[i].colors]_vars

\* the file cannot be read completely into records: the JSON is malformed,
\* or an entry lacks name, host or port
Unparsable(f) ==
    f.exists /\ (~f.wellformed \/ \E i \in 1..Len(f.contexts) : ~HasKeys(f.contexts[i]))

\* C11: load_contexts is all-or-nothing: over a missing contexts.json the list
\* holds no context and no error is reported; over a file that cannot be read
\* completely into records no record of the file is in the list, the error is
\* reported and the program runs on.
C11_LoadAllOrNothing ==
    (ev.op \in {"init", "restart"})
        => /\ ~config_file.exists
                => ContextItems(context_list) = <<>> /\ ev.err = ""
           /\ Unparsable(config_file)
                => /\ ContextItems(context_list) = <<>>
                   /\ ev.err # ""
                   /\ status_bar.msg = "load_failed"
                   /\ running

\* C12: an accepted edit of the context at row i puts the name, host and port
\* of the dialog at row i and changes no other row and not the length of the
\* list; an edit that is cancelled, rejected by the validation or addressed to
\* a row that holds no context leaves the list and contexts.json as they were.
C12_EditReplacesInPlace ==
    [][(ev'.op = "edit")
          => /\ (ev'.arg # NoArg /\ ValidRecord(ev'.arg))
                  => /\ Len(context_list') = Len(context_list)
                     /\ \A i \in 1..Len(context_list) :
                           i # ev'.row => context_list'[i] = context_list[i]
                     /\ LET c == ParseItem(context_list'[ev'.row].text)
                        IN  /\ c.exc = ""
                            /\ Data(c.name, c.host, c.port) = ev'.arg
             /\ ev'.arg = NoArg
                  => /\ context_list' = context_list
                     /\ config_file' = config_file]_vars

\* C13: when the write of contexts.json fails in the save that follows an add,
\* an edit or a delete, the list keeps the result of the operation, the
\* program runs on, and the message shown for the operation is the save error.
C13_SaveErrorIsReported ==
    [][(ev'.op \in {"add", "edit", "delete"} /\ ev'.save = "IOError")
          => /\ running'
             /\ config_file' = config_file
             /\ ev'.op = "add"
                  => ContextItems(context_list')
                        = ContextItems(context_list) \o <<AddedItem(ev'.arg)>>
             /\ ev'.op = "edit"
                  => context_list'[ev'.row].text = AddedItem(ev'.arg).text
             /\ ev'.op = "delete"
                  => ContextItems(context_list')
                        = ContextItems(RemoveAt(context_list, ev'.row))
             /\ status_bar'.msg = "save_failed"]_vars

\* C14: no handler ends in an uncaught exception: in every reachable state
\* the program is running, the handler that ran last raised nothing that was
\* not caught, and every context of the list reads back as a record.
C14_NoUncaughtException ==
    /\ running
    /\ ev.exc = ""
    /\ \A i \in 1..Len(context_list) :
          IsContext(context_list[i]) => ParseItem(context_list[i].text).exc = ""

C16_OnePlusLast ==
    (build = "gui")
        => /\ Len(context_list) >= 1
           /\ context_list[Len(context_list)] = PlusItem
           /\ \A i \in 1..(Len(context_list) - 1) : IsContext(context_list[i])
           /\ ev.save = "written"
                => /\ Len(config_file.contexts) = Len(context_list) - 1
                   /\ \A i \in 1..Len(config_file.contexts) :
                         config_file.contexts[i]
                            = SavedContext(Window, context_list[i], 1)

\* build "gui": a delete has been carried out and written, and a context is
\* still in the list before "+"
C16_Witness ==
    /\ build = "gui"
    /\ ev.op = "delete"
    /\ ev.save = "written"
    /\ Len(context_list) = 2

\* C17: whenever the session is connected over an open connection, the
\* endpoint the client was made for is the host and port that the currently
\* selected item shows.
C17_ConnectedToSelected ==
    (is_connected /\ client.open)
        => /\ current # 0
           /\ LET c == ParseItem(ItemText(Window, current))
              IN  /\ c.exc = ""
                  /\ IntOk(c.port)
                  /\ client.obj
                  /\ client.host = c.host
                  /\ client.port = IntVal(c.port)

=============================================================================
